---- MODULE Spec2Model ----
(***************************************************************************)
(* Model of the Sudoku generator of src/src/main.rs: the placement checker *)
(* (is_safe and its three unit scans), the backtracking filler             *)
(* (fill_recursive), the counting solver (solve_count) and the removal     *)
(* driver (remove_cells).  Grids keep the source's 0-based indexing:       *)
(* grid[row][col], 0 = empty.                                              *)
(***************************************************************************)
EXTENDS Integers, Sequences, FiniteSets, TLC

VARIABLES
    grid,        \* the 9x9 grid being filled, then emptied
    stack,       \* call stack of fill_recursive: one frame per active call
    numbers,     \* the shuffled digit pool of fill
    pc,          \* position of the program
    difficulty,  \* remove_cells: the target
    cells,       \* remove_cells: the counter of filled cells
    old_cells,   \* remove_cells: the counter at the end of the last pass
    attempt,     \* remove_cells: iterations done of "for _ in 0..100"
    entry,       \* history: the grid as it was when the running call began
    ret          \* history: the last call's result

vars == <<grid, stack, numbers, pc, difficulty, cells, old_cells, attempt,
          entry, ret>>

(* ------------------------------------------------------------------ *)
(* Program constants                                                    *)
(* ------------------------------------------------------------------ *)

\* side of the grid: vec![vec![0; 9]; 9]
N == 9

\* side of a box: row - row % 3, 0..3
Box == 3

\* let mut cells = 81
CellCount == 81

\* for _ in 0..100
PassLen == 100

\* remove_cells(&mut sudoku, 40)
MainDifficulty == 40

(* ------------------------------------------------------------------ *)
(* Bounds of the model                                                  *)
(* ------------------------------------------------------------------ *)

\* digit pools tried by fill: the rotations 0..NumPerms-1 of 1..9
NumPerms == 2

\* the random picks of remove_cells range over the first NumPicks cells
\* of rows 0 and Box, taken column by column
NumPicks == 4

\* targets handed to remove_cells besides main's 40: CellCount - 0..MaxSlack
MaxSlack == 2

\* partial grids handed to the functions have at most MaxEmpty blanked
\* cells
MaxEmpty == 4

Idx == 0..(N - 1)

Digits == 1..N

Cells == Idx \X Idx

EmptyGrid == [r \in Idx |-> [c \in Idx |-> 0]]

Perm(k) == [d \in 1..N |-> ((d + k - 1) % N) + 1]

Perms == {Perm(k) : k \in 0..(NumPerms - 1)}

PickCells == {<<Box * (k % 2), k \div 2>> : k \in 0..(NumPicks - 1)}

Targets == {MainDifficulty} \cup {CellCount - s : s \in 0..MaxSlack}

None == <<>>

NoRet == [fn |-> "none"]

(* ------------------------------------------------------------------ *)
(* Constraint checker                                                   *)
(* ------------------------------------------------------------------ *)

used_in_row(g, row, num) == \E j \in Idx : g[row][j] = num

used_in_col(g, col, num) == \E i \in Idx : g[i][col] = num

used_in_box_first_row(g, row, col, num) ==
    \E j \in 0..(Box - 1) : g[row][j + col] = num

used_in_box(g, row, col, num) ==
    \E i \in 0..(Box - 1) : \E j \in 0..(Box - 1) : g[i + row][j + col] = num

is_safe_no_box(g, row, col, num) ==
    /\ ~used_in_row(g, row, num)
    /\ ~used_in_col(g, col, num)

is_safe(g, row, col, num) ==
    /\ ~used_in_row(g, row, num)
    /\ ~used_in_col(g, col, num)
    /\ ~used_in_box(g, row - (row % Box), col - (col % Box), num)

(* ------------------------------------------------------------------ *)
(* Counting solver                                                      *)
(* ------------------------------------------------------------------ *)

\* The cursor (row, col) as a row-major index; (row, N) is the index of
\* (row + 1, 0), which is the cursor normalisation of solve_count, and
\* (N - 1, N) is N * N, its terminal test.
cursor(row, col) == row * N + col

\* The chain of calls solve_count(grid, row, col + 1, count) over filled
\* cells ends at the first empty cell at or after the cursor, or at the
\* terminal cursor N * N when there is none.
next_empty(g, k) ==
    IF \A m \in k..(N * N - 1) : g[m \div N][m % N] # 0
    THEN N * N
    ELSE CHOOSE m \in k..(N * N - 1) :
            /\ g[m \div N][m % N] = 0
            /\ \A j \in k..(m - 1) : g[j \div N][j % N] # 0

RECURSIVE solve_count(_, _, _, _)
RECURSIVE solve_digits(_, _, _, _)

solve_digits_first(g, row, col, num) ==
    IF num > N
    THEN 0
    ELSE IF is_safe(g, row, col, num)
         THEN solve_count([g EXCEPT ![row][col] = num], row, col + 1, 0)
         ELSE solve_digits(g, row, col, num + 1)

\* the loop "for num in 1..=9" at the empty cell (row, col), from num on:
\* what the recursive calls add to *count; each safe digit recurses into
\* its own copy of the grid, at the next cell
solve_digits(g, row, col, num) ==
    IF num > N
    THEN 0
    ELSE (IF is_safe(g, row, col, num)
          THEN solve_count([g EXCEPT ![row][col] = num], row, col + 1, 0)
          ELSE 0)
         + solve_digits(g, row, col, num + 1)

\* the value of *count when solve_count(grid, row, col, &mut count) returns
solve_count(g, row, col, count) ==
    LET k == next_empty(g, cursor(row, col))
    IN IF k = N * N
       THEN count + 1
       ELSE count + solve_digits(g, k \div N, k % N, 1)

(* ------------------------------------------------------------------ *)
(* Randomized filler: fill_recursive as a machine with its call stack   *)
(* ------------------------------------------------------------------ *)

\* first empty cell in row-major order, or None
find_empty_location(g) ==
    IF \A p \in Cells : g[p[1]][p[2]] # 0
    THEN None
    ELSE LET k == CHOOSE k \in 0..(N * N - 1) :
                    /\ g[k \div N][k % N] = 0
                    /\ \A m \in 0..(k - 1) : g[m \div N][m % N] # 0
         IN <<k \div N, k % N>>

Top == stack[Len(stack)]

Pop == SubSeq(stack, 1, Len(stack) - 1)

place(g, row, col, num) == [g EXCEPT ![row][col] = num]

reset_skipped(g, row, col) == g

reset(g, row, col) == [g EXCEPT ![row][col] = 0]

\* fill: shuffle the digit pool and call fill_recursive(grid, &numbers)
fill ==
    /\ pc = "create_sudoku"
    /\ \E nums \in Perms : numbers' = nums
    /\ pc' = "fill_recursive"
    /\ UNCHANGED <<grid, stack, difficulty, cells, old_cells, attempt,
                   entry, ret>>

\* entry of fill_recursive: find_empty_location, then the loop or
\* "return true"
fill_call ==
    /\ pc = "fill_recursive"
    /\ LET loc == find_empty_location(grid)
       IN IF loc # None
          THEN /\ stack' = Append(stack, [row |-> loc[1], col |-> loc[2],
                                          k |-> 1, entry |-> grid])
               /\ pc' = "for_num"
               /\ ret' = ret
          ELSE /\ stack' = stack
               /\ pc' = "returned"
               /\ ret' = [fn |-> "fill_recursive", value |-> TRUE,
                          entry |-> grid]
    /\ UNCHANGED <<grid, numbers, difficulty, cells, old_cells, attempt,
                   entry>>

\* one iteration of "for &num in numbers" in the top frame, up to the
\* recursive call; "false" after the last digit
fill_for ==
    /\ pc = "for_num"
    /\ IF Top.k > Len(numbers)
       THEN /\ stack' = Pop
            /\ pc' = "returned"
            /\ ret' = [fn |-> "fill_recursive", value |-> FALSE,
                       entry |-> Top.entry]
            /\ grid' = grid
       ELSE IF is_safe(grid, Top.row, Top.col, numbers[Top.k])
            THEN /\ grid' = place(grid, Top.row, Top.col, numbers[Top.k])
                 /\ pc' = "fill_recursive"
                 /\ UNCHANGED <<stack, ret>>
            ELSE /\ stack' = [stack EXCEPT ![Len(stack)].k = @ + 1]
                 /\ UNCHANGED <<grid, pc, ret>>
    /\ UNCHANGED <<numbers, difficulty, cells, old_cells, attempt, entry>>

\* a call returned ret.value to its caller: "return true", or reset the
\* cell and go on with the next digit; the outermost call returns to fill
fill_return ==
    /\ pc = "returned"
    /\ IF stack = <<>>
       THEN /\ pc' = "filled"
            /\ UNCHANGED <<grid, stack, ret>>
       ELSE IF ret.value
            THEN /\ stack' = Pop
                 /\ ret' = [fn |-> "fill_recursive", value |-> TRUE,
                            entry |-> Top.entry]
                 /\ UNCHANGED <<grid, pc>>
            ELSE /\ grid' = reset(grid, Top.row, Top.col)
                 /\ stack' = [stack EXCEPT ![Len(stack)].k = @ + 1]
                 /\ pc' = "for_num"
                 /\ ret' = ret
    /\ UNCHANGED <<numbers, difficulty, cells, old_cells, attempt, entry>>

(* ------------------------------------------------------------------ *)
(* Cell-removal driver                                                  *)
(* ------------------------------------------------------------------ *)

\* entry of remove_cells(grid, d), after create_sudoku returned
remove_cells ==
    /\ pc = "filled"
    /\ \E d \in Targets : difficulty' = d
    /\ cells' = CellCount
    /\ old_cells' = CellCount + 1
    /\ entry' = grid
    /\ attempt' = 0
    /\ pc' = "while"
    /\ ret' = NoRet
    /\ UNCHANGED <<grid, stack, numbers>>

loop_guard_and(c, o, d) == c < o /\ c > d

\* while cells < old_cells || cells > difficulty
loop_guard(c, o, d) == c < o \/ c > d

\* the guard of the outer loop, and "grid.clone()" when it is false
remove_while ==
    /\ pc = "while"
    /\ IF loop_guard(cells, old_cells, difficulty)
       THEN /\ pc' = "for"
            /\ attempt' = 0
            /\ ret' = ret
       ELSE /\ pc' = "done"
            /\ attempt' = attempt
            /\ ret' = [fn |-> "remove_cells", value |-> grid]
    /\ UNCHANGED <<grid, stack, numbers, difficulty, cells, old_cells, entry>>

attempt_no_restore(g, c, row, col) ==
    IF g[row][col] # 0
    THEN LET g1 == [g EXCEPT ![row][col] = 0]
             count == solve_count(g1, 0, 0, 0)
         IN IF count # 1
            THEN [grid |-> g1, cells |-> c, outcome |-> "restored"]
            ELSE [grid |-> g1, cells |-> c - 1, outcome |-> "removed"]
    ELSE [grid |-> g, cells |-> c, outcome |-> "skipped"]

attempt_restore_count(g, c, row, col) ==
    IF g[row][col] # 0
    THEN LET g1 == [g EXCEPT ![row][col] = 0]
             count == solve_count(g1, 0, 0, 0)
         IN IF count # 1
            THEN [grid |-> [g1 EXCEPT ![row][col] = count], cells |-> c,
                  outcome |-> "restored"]
            ELSE [grid |-> g1, cells |-> c - 1, outcome |-> "removed"]
    ELSE [grid |-> g, cells |-> c, outcome |-> "skipped"]

attempt_always_decrement(g, c, row, col) ==
    IF g[row][col] # 0
    THEN LET backup == g[row][col]
             g1 == [g EXCEPT ![row][col] = 0]
             count == solve_count(g1, 0, 0, 0)
         IN IF count # 1
            THEN [grid |-> [g1 EXCEPT ![row][col] = backup], cells |-> c - 1,
                  outcome |-> "restored"]
            ELSE [grid |-> g1, cells |-> c - 1, outcome |-> "removed"]
    ELSE [grid |-> g, cells |-> c, outcome |-> "skipped"]

\* the body of the for loop at the pick (row, col): the grid and the
\* counter after it, and which branch was taken
attempt_at(g, c, row, col) ==
    IF g[row][col] # 0
    THEN LET backup == g[row][col]
             g1 == [g EXCEPT ![row][col] = 0]
             count == solve_count(g1, 0, 0, 0)
         IN IF count # 1
            THEN [grid |-> [g1 EXCEPT ![row][col] = backup], cells |-> c,
                  outcome |-> "restored"]
            ELSE [grid |-> g1, cells |-> c - 1, outcome |-> "removed"]
    ELSE [grid |-> g, cells |-> c, outcome |-> "skipped"]

\* one iteration of "for _ in 0..100"
remove_attempt ==
    /\ pc = "for"
    /\ attempt < PassLen
    /\ \E p \in PickCells :
          \E a \in {attempt_at(grid, cells, p[1], p[2])} :
             /\ grid' = a.grid
             /\ cells' = a.cells
             /\ ret' = [fn |-> "attempt", value |-> a.outcome]
    /\ attempt' = attempt + 1
    /\ UNCHANGED <<stack, numbers, pc, difficulty, old_cells, entry>>

\* the end of a pass: old_cells = cells
remove_pass_end ==
    /\ pc = "for"
    /\ attempt = PassLen
    /\ old_cells' = cells
    /\ pc' = "while"
    /\ UNCHANGED <<grid, stack, numbers, difficulty, cells, attempt, entry,
                   ret>>

(* ------------------------------------------------------------------ *)
(* main: create_sudoku, then remove_cells(&mut sudoku, 40)              *)
(* ------------------------------------------------------------------ *)

Init ==
    /\ grid = EmptyGrid
    /\ stack = <<>>
    /\ numbers = <<>>
    /\ pc = "create_sudoku"
    /\ difficulty = 0
    /\ cells = 0
    /\ old_cells = 0
    /\ attempt = 0
    /\ entry = EmptyGrid
    /\ ret = NoRet

Next ==
    \/ fill
    \/ fill_call
    \/ fill_for
    \/ fill_return
    \/ remove_cells
    \/ remove_while
    \/ remove_attempt
    \/ remove_pass_end

Spec == Init /\ [][Next]_vars

(* ------------------------------------------------------------------ *)
(* create_sudoku alone: fill on the empty grid, run to its return       *)
(* ------------------------------------------------------------------ *)

NextCreate ==
    \/ fill
    \/ fill_call
    \/ fill_for
    \/ fill_return

\* the filler is one sequential call: a step that can be taken is taken
SpecCreateFair == Init /\ [][NextCreate]_vars /\ WF_vars(NextCreate)

(* ------------------------------------------------------------------ *)
(* Input grids for the functions called on their own                    *)
(* ------------------------------------------------------------------ *)

\* the grid fill produces with the digit pool 1..9
FixtureRows ==
    << <<1, 2, 3, 4, 5, 6, 7, 8, 9>>,
       <<4, 5, 6, 7, 8, 9, 1, 2, 3>>,
       <<7, 8, 9, 1, 2, 3, 4, 5, 6>>,
       <<2, 1, 4, 3, 6, 5, 8, 9, 7>>,
       <<3, 6, 5, 8, 9, 7, 2, 1, 4>>,
       <<8, 9, 7, 2, 1, 4, 3, 6, 5>>,
       <<5, 3, 1, 6, 4, 2, 9, 7, 8>>,
       <<6, 4, 2, 9, 7, 8, 5, 3, 1>>,
       <<9, 7, 8, 5, 3, 1, 6, 4, 2>> >>

Fixture == [r \in Idx |-> [c \in Idx |-> FixtureRows[r + 1][c + 1]]]

\* the grid fill produces with the digit pool nums: the pool's order is
\* the only way fill_recursive tells digits apart
Relabel(g, nums) ==
    [r \in Idx |-> [c \in Idx |-> IF g[r][c] = 0 THEN 0 ELSE nums[g[r][c]]]]

SolvedGrids == {Relabel(Fixture, nums) : nums \in Perms}

Blank(g, S) ==
    [r \in Idx |-> [c \in Idx |-> IF <<r, c>> \in S THEN 0 ELSE g[r][c]]]

\* cells that may be overwritten: the pick cells, and one more cell of
\* row 0, of column 0 and of box 0
OverCells == PickCells \cup {<<0, Box + 1>>, <<Box + 1, 0>>, <<1, 1>>}

\* no overwrite, or cell w[1] takes the solved grid's digit of cell w[2]
Overwrites == {None} \cup (OverCells \X PickCells)

Over(g, s, w) ==
    IF w = None
    THEN g
    ELSE [g EXCEPT ![w[1][1]][w[1][2]] = s[w[2][1]][w[2][2]]]

\* a solved grid with at most MaxEmpty pick cells blanked, then at most
\* one cell overwritten: partial grids with and without conflicts among
\* their filled cells
InputGrids ==
    {Over(Blank(s, S), s, w) :
        s \in SolvedGrids,
        S \in {T \in SUBSET PickCells : Cardinality(T) <= MaxEmpty},
        w \in Overwrites}

InitCall(grids, start) ==
    /\ grid \in grids
    /\ entry = grid
    /\ stack = <<>>
    /\ pc = start
    /\ difficulty = 0
    /\ cells = 0
    /\ old_cells = 0
    /\ attempt = 0
    /\ ret = NoRet

(* ------------------------------------------------------------------ *)
(* fill_recursive called on a partial grid                              *)
(* ------------------------------------------------------------------ *)

InitFill ==
    /\ InitCall(InputGrids \cup {EmptyGrid}, "fill_recursive")
    /\ numbers \in Perms

NextFill ==
    \/ fill_call
    \/ fill_for
    \/ fill_return

SpecFill == InitFill /\ [][NextFill]_vars

(* ------------------------------------------------------------------ *)
(* remove_cells called on a complete rule-valid grid                    *)
(* ------------------------------------------------------------------ *)

\* is_safe only compares digits, so relabelling the digits of the grid
\* changes nothing remove_cells does: one solved grid stands for its
\* relabellings
InitRemove ==
    /\ InitCall({Fixture}, "filled")
    /\ numbers = <<>>

NextRemove ==
    \/ remove_cells
    \/ remove_while
    \/ remove_attempt
    \/ remove_pass_end

SpecRemove == InitRemove /\ [][NextRemove]_vars

(* ------------------------------------------------------------------ *)
(* is_safe and solve_count called on a partial grid                     *)
(* ------------------------------------------------------------------ *)

InitFn ==
    /\ InitCall(InputGrids, "call")
    /\ numbers = <<>>

\* is_safe(&grid, row, col, num): the grid is borrowed immutably
call_is_safe ==
    /\ pc = "call"
    /\ \E p \in PickCells : \E num \in Digits :
          ret' = [fn |-> "is_safe", row |-> p[1], col |-> p[2], num |-> num,
                  value |-> is_safe(grid, p[1], p[2], num)]
    /\ pc' = "called"
    /\ UNCHANGED <<grid, stack, numbers, difficulty, cells, old_cells,
                   attempt, entry>>

\* let mut count = 0; solve_count(&grid, 0, 0, &mut count)
call_solve_count ==
    /\ pc = "call"
    /\ ret' = [fn |-> "solve_count", value |-> solve_count(grid, 0, 0, 0)]
    /\ pc' = "called"
    /\ UNCHANGED <<grid, stack, numbers, difficulty, cells, old_cells,
                   attempt, entry>>

NextFn ==
    \/ call_is_safe
    \/ call_solve_count

SpecFn == InitFn /\ [][NextFn]_vars

(* ------------------------------------------------------------------ *)
(* The rules of Sudoku, stated apart from the code                      *)
(* ------------------------------------------------------------------ *)

RowUnits == {{<<r, c>> : c \in Idx} : r \in Idx}

ColUnits == {{<<r, c>> : r \in Idx} : c \in Idx}

BoxUnits ==
    {{<<(Box * br) + i, (Box * bc) + j>> : i \in 0..(Box - 1), j \in 0..(Box - 1)} :
        br \in 0..(Box - 1), bc \in 0..(Box - 1)}

Units == RowUnits \cup ColUnits \cup BoxUnits

At(g, p) == g[p[1]][p[2]]

Filled(g) == Cardinality({p \in Cells : At(g, p) # 0})

\* no empty cell, and every unit holds each digit exactly once
Complete(g) ==
    /\ \A p \in Cells : At(g, p) \in Digits
    /\ \A u \in Units : \A d \in Digits :
          Cardinality({p \in u : At(g, p) = d}) = 1

\* no digit twice among the filled cells of a unit
GivensConsistent(g) ==
    \A u \in Units : \A p \in u : \A q \in u :
        (p # q /\ At(g, p) # 0) => At(g, p) # At(g, q)

EmptyCells(g) == {p \in Cells : At(g, p) = 0}

Extend(g, a) ==
    [r \in Idx |-> [c \in Idx |-> IF g[r][c] = 0 THEN a[<<r, c>>] ELSE g[r][c]]]

\* the complete rule-valid grids that agree with g on its nonzero cells,
\* each given by its digits for g's empty cells
Completions(g) ==
    {a \in [EmptyCells(g) -> Digits] :
        \A u \in Units : \A d \in Digits : \E p \in u : At(Extend(g, a), p) = d}

\* the cells of the row, the column and the box of (row, col)
UnitCells(row, col) ==
    {p \in Cells : \/ p[1] = row
                   \/ p[2] = col
                   \/ (p[1] \div Box = row \div Box /\ p[2] \div Box = col \div Box)}

InRemove == pc \in {"while", "for", "done"}

\* the grid create_sudoku hands to remove_cells is the fixture, relabelled
\* by the digit pool
FilledIsFixture == pc = "filled" => grid = Relabel(Fixture, numbers)

(* ------------------------------------------------------------------ *)
(* Claims                                                               *)
(* ------------------------------------------------------------------ *)

\* C1: in remove_cells, after every removal attempt and in the grid it
\* returns, the oracle solve_count run from cursor (0,0) with count 0
\* yields exactly 1.
C1_UniqueAfterEveryAttempt ==
    InRemove =>
        /\ solve_count(grid, 0, 0, 0) = 1
        /\ pc = "done" => solve_count(ret.value, 0, 0, 0) = 1

\* a removal was just rejected and undone, after earlier removals
C1_Witness ==
    /\ pc = "for"
    /\ ret = [fn |-> "attempt", value |-> "restored"]
    /\ Filled(grid) < CellCount

\* C2: fill_recursive called on the all-empty grid terminates, returns
\* true, and leaves a grid with no empty cell in which every row, column
\* and box holds each of 1..9 exactly once.
C2_FillCompletes ==
    /\ [](pc = "filled" => (ret.value = TRUE /\ Complete(grid)))
    /\ <>(pc = "filled")

\* the outermost call, entered on the empty grid, has returned true
C2_Witness ==
    /\ pc = "filled"
    /\ ret = [fn |-> "fill_recursive", value |-> TRUE, entry |-> EmptyGrid]
    /\ Complete(grid)

\* C3 as stated: for every grid with cells in 0..9, with no precondition
\* on the filled cells, solve_count from (0,0) with count 0 ends with the
\* number of complete rule-valid grids that extend it.
C3_AnyGrid ==
    (pc = "called" /\ ret.fn = "solve_count")
        => ret.value = Cardinality(Completions(grid))

\* C3 as amended: the same, for the grids whose filled cells hold no
\* digit twice in a row, column or box.
C3_ConsistentGivens ==
    (pc = "called" /\ ret.fn = "solve_count" /\ GivensConsistent(grid))
        => ret.value = Cardinality(Completions(grid))

\* the oracle counted the two completions of a grid with empty cells
C3_Witness ==
    /\ pc = "called"
    /\ ret.fn = "solve_count"
    /\ GivensConsistent(grid)
    /\ EmptyCells(grid) # {}
    /\ ret.value = 2

\* C4 as stated: is_safe is true iff the digit appears in no cell of the
\* row, the column and the box of (row, col) other than (row, col)
\* itself, and the grid is left unchanged.
C4_NowhereElse ==
    (pc = "called" /\ ret.fn = "is_safe")
        => /\ ret.value =
                (\A p \in UnitCells(ret.row, ret.col) \ {<<ret.row, ret.col>>} :
                    At(grid, p) # ret.num)
           /\ grid = entry

\* C4 as amended: is_safe is true iff the digit appears in no cell of the
\* row, the column and the box of (row, col), the cell (row, col)
\* included; for an empty (row, col) that is "nowhere else".  The grid
\* is left unchanged.
C4_Nowhere ==
    (pc = "called" /\ ret.fn = "is_safe")
        => /\ ret.value =
                (\A p \in UnitCells(ret.row, ret.col) : At(grid, p) # ret.num)
           /\ (At(grid, <<ret.row, ret.col>>) = 0 =>
                 ret.value =
                   (\A p \in UnitCells(ret.row, ret.col) \ {<<ret.row, ret.col>>} :
                       At(grid, p) # ret.num))
           /\ grid = entry

\* is_safe rejected a digit of an empty cell that only the column holds
C4_Witness ==
    /\ pc = "called"
    /\ ret.fn = "is_safe"
    /\ ret.value = FALSE
    /\ At(grid, <<ret.row, ret.col>>) = 0
    /\ ~used_in_row(grid, ret.row, ret.num)
    /\ \A p \in UnitCells(ret.row, ret.col) :
          At(grid, p) = ret.num => (p[2] = ret.col /\ p[1] \div Box # ret.row \div Box)

\* C5: the outer loop of remove_cells ends once a full pass of 100
\* attempts removes no cell (cells == old_cells at the end of the pass),
\* even if cells is still above the target: the guard evaluated after
\* such a pass is false.
C5_ExitsAfterIdlePass ==
    [][(pc = "for" /\ attempt = PassLen /\ cells = old_cells)
          => (pc' = "while" /\ ~loop_guard(cells', old_cells', difficulty'))]_vars

\* C6: the grid remove_cells returns has between difficulty (40 in main)
\* and 81 nonzero cells: removal never takes the count below the target.
C6_NotBelowTarget ==
    pc = "done" =>
        /\ Filled(ret.value) >= difficulty
        /\ Filled(ret.value) <= CellCount

\* C7: whenever remove_cells returns, the returned puzzle has at most
\* difficulty nonzero cells.
C7_AtMostTarget == pc = "done" => Filled(ret.value) <= difficulty

\* remove_cells returned a puzzle with cells removed
C7_Witness ==
    /\ pc = "done"
    /\ ret.fn = "remove_cells"
    /\ Filled(ret.value) < CellCount
    /\ Filled(ret.value) <= difficulty

\* C8: between removal attempts and in the returned puzzle, every cell
\* is 0 or the digit the solved grid passed in had at that position.
C8_SubsetOfSolved ==
    InRemove =>
        /\ \A p \in Cells : At(grid, p) \in {0, At(entry, p)}
        /\ pc = "done" => \A p \in Cells : At(ret.value, p) \in {0, At(entry, p)}

\* a rejected removal wrote the cell's digit back, beside emptied cells
C8_Witness ==
    /\ pc = "for"
    /\ ret.fn = "attempt"
    /\ ret.value = "restored"
    /\ \E p \in Cells : At(grid, p) = 0
    /\ \E p \in PickCells : At(grid, p) = At(entry, p) /\ At(grid, p) # 0

\* C9: after every removal attempt cells is the number of nonzero cells;
\* an accepted removal (oracle count exactly 1) empties exactly one cell
\* and decrements cells, a rejected removal and a pick of an empty cell
\* leave the grid and cells as they were.
C9_CounterTracksGrid ==
    [][(pc = "for" /\ attempt < PassLen) =>
          /\ cells' = Filled(grid')
          /\ ret'.value = "removed" =>
                /\ \E p \in Cells :
                      /\ At(grid, p) # 0
                      /\ grid' = [grid EXCEPT ![p[1]][p[2]] = 0]
                /\ solve_count(grid', 0, 0, 0) = 1
                /\ cells' = cells - 1
          /\ ret'.value \in {"restored", "skipped"} =>
                /\ grid' = grid
                /\ cells' = cells]_vars

\* removals were accepted, then one was rejected
C9_Witness ==
    /\ pc = "for"
    /\ ret.fn = "attempt"
    /\ ret.value = "restored"
    /\ cells = Filled(grid)
    /\ cells = CellCount - 3

\* C10: a call of fill_recursive that returns false leaves the grid as
\* it was at call entry, and a call that returns true has changed no
\* cell that was nonzero at call entry.
C10_FillFrame ==
    pc = "returned" =>
        /\ ~ret.value => grid = ret.entry
        /\ ret.value => \A p \in Cells :
                            At(ret.entry, p) # 0 => At(grid, p) = At(ret.entry, p)

\* a call returned false after it had placed a digit in its cell
C10_Witness ==
    /\ pc = "returned"
    /\ ~ret.value
    /\ grid = ret.entry
    /\ find_empty_location(ret.entry) # None
    /\ \E k \in 1..Len(numbers) :
          is_safe(ret.entry, find_empty_location(ret.entry)[1],
                  find_empty_location(ret.entry)[2], numbers[k])

====
